---------------------------- MODULE Spec2Model ----------------------------
(***************************************************************************)
(* Model of the SQL execution bridge of diary_quest's desktop backend      *)
(* (apps/desktop/src-tauri/src/main.rs, execute_sql).                      *)
(*                                                                         *)
(* Text (query text, JSON strings, SQLite TEXT) is a sequence of           *)
(* one-character strings, so that trim / to_uppercase / starts_with and    *)
(* the JSON serialisation are computed, not assumed.                       *)
(*                                                                         *)
(* The storage engine (SQLite behind rusqlite) is modelled for one table   *)
(*   t(id INTEGER PRIMARY KEY, v)        -- v has no declared type         *)
(* and a fixed catalogue of statements; any text outside the catalogue is  *)
(* a syntax error for the engine.                                          *)
(*                                                                         *)
(* Two specifications:                                                     *)
(*   Spec      every call runs to completion as one step (ExecuteSql);     *)
(*   SpecConc  calls of several callers interleave at the points where     *)
(*             execute_sql touches the connection (open, prepare, run).    *)
(***************************************************************************)
EXTENDS Integers, Sequences, FiniteSets, TLC

VARIABLES
    store,        \* the file-backed relational store at the good location
    last,         \* the most recent completed call of Spec: input, outcome
    hist,         \* the successful single-row INSERT calls since CREATE TABLE
    calls,        \* SpecConc: every caller's in-flight call
    connections,  \* SpecConc: the open engine connections, by handle
    dbState       \* DbState.connections: the bridge's connection map

vars == <<store, last, hist, calls, connections, dbState>>

----------------------------------------------------------------------------
(* Bounds of the model *)

\* rows the table may hold
MaxRows == 2
\* concurrent callers of SpecConc
NumCallers == 2

Callers == 1..NumCallers

----------------------------------------------------------------------------
(* Text *)

LowerLetters ==
    <<"a","b","c","d","e","f","g","h","i","j","k","l","m",
      "n","o","p","q","r","s","t","u","v","w","x","y","z">>
UpperLetters ==
    <<"A","B","C","D","E","F","G","H","I","J","K","L","M",
      "N","O","P","Q","R","S","T","U","V","W","X","Y","Z">>

\* the upper-case form of every lower-case ASCII letter
UpperOf ==
    [c \in {LowerLetters[i] : i \in 1..Len(LowerLetters)} |->
        UpperLetters[CHOOSE i \in 1..Len(LowerLetters) : LowerLetters[i] = c]]

\* char::to_uppercase on the ASCII range
UpperChar(c) == IF c \in DOMAIN UpperOf THEN UpperOf[c] ELSE c

\* str::to_uppercase
ToUppercase(s) == [i \in 1..Len(s) |-> UpperChar(s[i])]

\* char::is_whitespace on the characters the model uses
IsWhitespace(c) == c \in {" ", "\n", "\t", "\r"}

RECURSIVE TrimStart(_)
TrimStart(s) ==
    IF s # <<>> /\ IsWhitespace(Head(s)) THEN TrimStart(Tail(s)) ELSE s

RECURSIVE TrimEnd(_)
TrimEnd(s) ==
    IF s # <<>> /\ IsWhitespace(s[Len(s)])
    THEN TrimEnd(SubSeq(s, 1, Len(s) - 1))
    ELSE s

\* str::trim
Trim(s) == TrimEnd(TrimStart(s))

\* str::starts_with
StartsWith(s, p) == Len(s) >= Len(p) /\ SubSeq(s, 1, Len(p)) = p

SelectKeyword == <<"S","E","L","E","C","T">>

\* IsSelect with a fault: the keyword test without to_uppercase
IsSelectCaseSensitive(query) == StartsWith(Trim(query), SelectKeyword)

\* query.trim().to_uppercase().starts_with("SELECT")
IsSelect(query) == StartsWith(ToUppercase(Trim(query)), SelectKeyword)

----------------------------------------------------------------------------
(* Option<T>: None is <<>>, Some(x) is <<x>> *)

None == <<>>
Some(x) == <<x>>
IsSome(o) == o # <<>>

----------------------------------------------------------------------------
(* f64 values: m * 2^e, m odd or zero (the model needs no arithmetic on    *)
(* them, only their identity).  u64 values: hi * 2^63 + lo, hi \in {0,1},  *)
(* lo < 2^10, so that bit 63 is explicit and i64::MAX is the line hi = 0.  *)

F64(m, e) == [m |-> m, e |-> e]

\* u64 as f64 (round to nearest): lo is below half an ulp when hi = 1
U64AsF64(u) == IF u.hi = 1 THEN F64(1, 63) ELSE F64(u.lo, 0)

----------------------------------------------------------------------------
(* serde_json::Value *)

JNull == [t |-> "Null"]
JBool(b) == [t |-> "Bool", b |-> b]
JString(s) == [t |-> "String", s |-> s]
JArray(items) == [t |-> "Array", items |-> items]
\* serde_json::Number holds PosInt(u64), NegInt(i64) or Float(f64)
JPosInt(hi, lo) == [t |-> "Number", k |-> "PosInt", hi |-> hi, lo |-> lo]
JNegInt(i) == [t |-> "Number", k |-> "NegInt", i |-> i]
JFloat(m, e) == [t |-> "Number", k |-> "Float", f |-> F64(m, e)]

\* Number::as_i64: Some for NegInt, and for PosInt(u) with u <= i64::MAX
AsI64(n) ==
    CASE n.k = "PosInt" -> IF n.hi = 0 THEN Some(n.lo) ELSE None
      [] n.k = "NegInt" -> Some(n.i)
      [] OTHER -> None

\* Number::as_f64: Some for every number (no arbitrary_precision)
AsF64(n) ==
    CASE n.k = "PosInt" -> Some(U64AsF64(n))
      [] n.k = "NegInt" -> Some(F64(n.i, 0))
      [] OTHER -> Some(n.f)

Digits == <<"0","1","2","3","4","5","6","7","8","9">>

\* decimal text of a natural number
RECURSIVE NatText(_)
NatText(n) ==
    IF n < 10 THEN <<Digits[n + 1]>>
    ELSE NatText(n \div 10) \o <<Digits[(n % 10) + 1]>>

\* 2^63 = 9223372036854775808, the only u64 above i64::MAX the model uses
TwoPow63Text ==
    <<"9","2","2","3","3","7","2","0","3","6","8","5","4","7","7","5","8","0","8">>

\* Display of serde_json::Number (floats: the values the model uses)
NumberText(n) ==
    CASE n.k = "PosInt" -> IF n.hi = 0 THEN NatText(n.lo) ELSE TwoPow63Text
      [] n.k = "NegInt" -> <<"-">> \o NatText(0 - n.i)
      [] n.f = F64(3, -1) -> <<"1",".","5">>
      [] n.f = F64(1, 1) -> <<"2",".","0">>
      [] OTHER -> <<"9",".","2","2","3","3","7","2","0","3","6","8","5","4","7","7","6",
                    "e","1","8">>

\* Display of serde_json::Value: compact JSON text
RECURSIVE JsonText(_)
RECURSIVE JsonItemsText(_)
JsonItemsText(items) ==
    IF items = <<>> THEN <<>>
    ELSE IF Len(items) = 1 THEN JsonText(items[1])
    ELSE JsonText(items[1]) \o <<",">> \o JsonItemsText(Tail(items))
JsonText(v) ==
    CASE v.t = "Null" -> <<"n","u","l","l">>
      [] v.t = "Bool" -> IF v.b THEN <<"t","r","u","e">> ELSE <<"f","a","l","s","e">>
      [] v.t = "Number" -> NumberText(v)
      [] v.t = "String" -> <<"\"">> \o v.s \o <<"\"">>
      [] OTHER -> <<"[">> \o JsonItemsText(v.items) \o <<"]">>

----------------------------------------------------------------------------
(* Parameter translation (main.rs 108-127): each JSON value becomes a      *)
(* boxed Rust value that implements ToSql.                                 *)

PString(s) == [ty |-> "String", s |-> s]
PI64(i) == [ty |-> "i64", i |-> i]
PF64(f) == [ty |-> "f64", f |-> f]
PBool(b) == [ty |-> "bool", b |-> b]
PNull == [ty |-> "Null"]

\* TranslateValue with a fault: booleans are dropped to the null marker
TranslateValueBoolAsNull(v) ==
    CASE v.t = "String" -> PString(v.s)
      [] v.t = "Number" ->
            IF IsSome(AsI64(v)) THEN PI64(AsI64(v)[1])
            ELSE IF IsSome(AsF64(v)) THEN PF64(AsF64(v)[1])
            ELSE PString(NumberText(v))
      [] v.t = "Bool" -> PNull
      [] v.t = "Null" -> PNull
      [] OTHER -> PString(JsonText(v))

\* the match of lines 111-125
TranslateValue(v) ==
    CASE v.t = "String" -> PString(v.s)
      [] v.t = "Number" ->
            IF IsSome(AsI64(v)) THEN PI64(AsI64(v)[1])
            ELSE IF IsSome(AsF64(v)) THEN PF64(AsF64(v)[1])
            ELSE PString(NumberText(v))
      [] v.t = "Bool" -> PBool(v.b)
      [] v.t = "Null" -> PNull
      [] OTHER -> PString(JsonText(v))

\* values.iter().map(..).collect()
Translate(values) == [i \in 1..Len(values) |-> TranslateValue(values[i])]

----------------------------------------------------------------------------
(* rusqlite::types::Value, and the two conversions at the engine boundary  *)

SNull == [t |-> "Null"]
SInteger(i) == [t |-> "Integer", i |-> i]
SReal(f) == [t |-> "Real", f |-> f]
SText(s) == [t |-> "Text", s |-> s]
SBlob == [t |-> "Blob"]

\* ToSql of the boxed values of lines 112-124, as the engine binds them
ToSqlValue(p) ==
    CASE p.ty = "String" -> SText(p.s)
      [] p.ty = "i64" -> SInteger(p.i)
      [] p.ty = "f64" -> SReal(p.f)
      [] p.ty = "bool" -> SInteger(IF p.b THEN 1 ELSE 0)
      [] OTHER -> SNull

\* params_refs bound in order (line 129, then 142 or 169)
BindAll(params) == [i \in 1..Len(params) |-> ToSqlValue(params[i])]

\* ValueToJson with a fault: TEXT is dropped like a blob
ValueToJsonTextAsNull(value) ==
    CASE value.t = "Null" -> JNull
      [] value.t = "Integer" ->
            IF value.i >= 0 THEN JPosInt(0, value.i) ELSE JNegInt(value.i)
      [] value.t = "Real" -> [t |-> "Number", k |-> "Float", f |-> value.f]
      [] value.t = "Text" -> JNull
      [] OTHER -> JNull

\* the match of lines 147-153
ValueToJson(value) ==
    CASE value.t = "Null" -> JNull
      [] value.t = "Integer" ->
            IF value.i >= 0 THEN JPosInt(0, value.i) ELSE JNegInt(value.i)
      [] value.t = "Real" -> [t |-> "Number", k |-> "Float", f |-> value.f]
      [] value.t = "Text" -> JString(value.s)
      [] OTHER -> JNull

\* HashMap::insert: a later value replaces an earlier one under the same key
MapInsert(map, key, value) ==
    [k \in (DOMAIN map) \cup {key} |-> IF k = key THEN value ELSE map[k]]

\* the loop of lines 143-156 over one engine row
RECURSIVE RowLoop(_, _, _, _)
RowLoop(map, column_names, row, i) ==
    IF i > Len(column_names) THEN map
    ELSE RowLoop(MapInsert(map, column_names[i], ValueToJson(row[i])),
                 column_names, row, i + 1)

RowMap(column_names, row) == RowLoop(<<>>, column_names, row, 1)

----------------------------------------------------------------------------
(* The storage engine *)

EmptyStore == [exists |-> FALSE, rows |-> <<>>]

\* a connection's own counters: sqlite3_changes, sqlite3_last_insert_rowid
FreshConn == [changes |-> 0, lastRowid |-> 0]

Stmt(kind, table, nparams, cols) ==
    [kind |-> kind, table |-> table, nparams |-> nparams, cols |-> cols]
\* 'CREATE TABLE t(id INTEGER PRIMARY KEY,v)'
QCreate ==
    <<"C","R","E","A","T","E"," ","T","A","B","L","E"," ","t","(","i","d"," ",
      "I","N","T","E","G","E","R"," ","P","R","I","M","A","R","Y"," ","K","E",
      "Y",",","v",")">>

\* 'INSERT INTO t(v) VALUES (?)'
QInsert ==
    <<"I","N","S","E","R","T"," ","I","N","T","O"," ","t","(","v",")"," ","V",
      "A","L","U","E","S"," ","(","?",")">>

\* 'INSERT INTO t(id,v) VALUES (1,?)'
QInsertId1 ==
    <<"I","N","S","E","R","T"," ","I","N","T","O"," ","t","(","i","d",",","v",
      ")"," ","V","A","L","U","E","S"," ","(","1",",","?",")">>

\* 'INSERT INTO t(v) VALUES (?) RETURNING id'
QInsertRet ==
    <<"I","N","S","E","R","T"," ","I","N","T","O"," ","t","(","v",")"," ","V",
      "A","L","U","E","S"," ","(","?",")"," ","R","E","T","U","R","N","I","N",
      "G"," ","i","d">>

\* 'DELETE FROM t'
QDelete ==
    <<"D","E","L","E","T","E"," ","F","R","O","M"," ","t">>

\* 'SELECT id,v FROM t'
QSelect ==
    <<"S","E","L","E","C","T"," ","i","d",",","v"," ","F","R","O","M"," ",
      "t">>

\* ' select id,v from t\n'
QSelectLow ==
    <<" ","s","e","l","e","c","t"," ","i","d",",","v"," ","f","r","o","m"," ",
      "t","\n">>

\* 'SELECT id AS x,v AS x FROM t'
QSelectDup ==
    <<"S","E","L","E","C","T"," ","i","d"," ","A","S"," ","x",",","v"," ","A",
      "S"," ","x"," ","F","R","O","M"," ","t">>

\* 'SELECT ? AS a,? AS b'
QSelect2 ==
    <<"S","E","L","E","C","T"," ","?"," ","A","S"," ","a",",","?"," ","A","S",
      " ","b">>

\* 'SELECT ? AS p'
QSelect1 ==
    <<"S","E","L","E","C","T"," ","?"," ","A","S"," ","p">>

\* "SELECT x'00' AS b"
QSelectBlob ==
    <<"S","E","L","E","C","T"," ","x","'","0","0","'"," ","A","S"," ","b">>

\* 'WITH x AS (SELECT v FROM t) SELECT v FROM x'
QWith ==
    <<"W","I","T","H"," ","x"," ","A","S"," ","(","S","E","L","E","C","T"," ",
      "v"," ","F","R","O","M"," ","t",")"," ","S","E","L","E","C","T"," ","v",
      " ","F","R","O","M"," ","x">>

\* 'SELEC id FROM t'
QMalformed ==
    <<"S","E","L","E","C"," ","i","d"," ","F","R","O","M"," ","t">>

\* 'SELECT id FROM u'
QUnknown ==
    <<"S","E","L","E","C","T"," ","i","d"," ","F","R","O","M"," ","u">>

\* the statements the engine understands, with their meaning
Catalogue ==
    { [text |-> QCreate,     stmt |-> Stmt("create",    "t", 0, <<>>)],
      [text |-> QInsert,     stmt |-> Stmt("insert",    "t", 1, <<>>)],
      [text |-> QInsertId1,  stmt |-> Stmt("insertid1", "t", 1, <<>>)],
      [text |-> QInsertRet,  stmt |-> Stmt("insertret", "t", 1, <<"id">>)],
      [text |-> QDelete,     stmt |-> Stmt("delete",    "t", 0, <<>>)],
      [text |-> QSelect,     stmt |-> Stmt("select",    "t", 0, <<"id", "v">>)],
      [text |-> QSelectDup,  stmt |-> Stmt("select",    "t", 0, <<"x", "x">>)],
      [text |-> QSelect1,    stmt |-> Stmt("select1",   "",  1, <<"p">>)],
      [text |-> QSelect2,    stmt |-> Stmt("select2",   "",  2, <<"a", "b">>)],
      [text |-> QSelectBlob, stmt |-> Stmt("blob",      "",  0, <<"b">>)],
      [text |-> QWith,       stmt |-> Stmt("with",      "t", 0, <<"v">>)],
      [text |-> QUnknown,    stmt |-> Stmt("select",    "u", 0, <<"id">>)] }

\* every query text a caller may pass
Queries ==
    { QCreate, QInsert, QInsertId1, QInsertRet, QDelete, QSelect, QSelectLow,
      QSelectDup, QSelect1, QSelect2, QSelectBlob, QWith, QMalformed, QUnknown }

\* the engine reads SQL ignoring case and surrounding white space
EngineCanon(text) == ToUppercase(Trim(text))

CanonCatalogue == { [canon |-> EngineCanon(c.text), stmt |-> c.stmt] : c \in Catalogue }

\* the statements a text compiles to: one, or none for a syntax error
ParseText(text) ==
    LET canon == EngineCanon(text) IN
    { e.stmt : e \in { c \in CanonCatalogue : c.canon = canon } }

\* ParseText on the texts of the model, computed once
ParseTable == [q \in Queries |-> ParseText(q)]

Parse(text) == ParseTable[text]

\* the schema check of a compiled statement: CREATE TABLE needs the table
\* absent, every other statement needs its table present
CheckSchema(st, stmts) ==
    IF stmts = {} THEN [ok |-> FALSE, cause |-> "syntax error"]
    ELSE LET s == CHOOSE x \in stmts : TRUE IN
         IF s.kind = "create"
         THEN IF st.exists
              THEN [ok |-> FALSE, cause |-> "table t already exists"]
              ELSE [ok |-> TRUE, stmt |-> s]
         ELSE IF s.table = "u" \/ (s.table = "t" /\ ~st.exists)
              THEN [ok |-> FALSE, cause |-> "no such table"]
              ELSE [ok |-> TRUE, stmt |-> s]

\* sqlite3_prepare_v2
EnginePrepare(st, text) == CheckSchema(st, Parse(text))

RECURSIVE MaxId(_)
MaxId(rows) ==
    IF rows = <<>> THEN 0
    ELSE LET m == MaxId(Tail(rows)) IN IF Head(rows).id > m THEN Head(rows).id ELSE m

\* the rowid an INTEGER PRIMARY KEY gets when none is given
NextRowid(st) == MaxId(st.rows) + 1

\* what running a valid statement does: rc is DONE, ROW or ERROR as the first
\* sqlite3_step reports it; rows are all the rows the statement yields; a
\* writing statement has written by the time the first step returns
EngineRun(st, conn, stmt, b) ==
    CASE stmt.kind = "create" ->
            [rc |-> "DONE", rows |-> <<>>, conn |-> conn,
             store |-> [st EXCEPT !.exists = TRUE]]
      [] stmt.kind = "insert" ->
            [rc |-> "DONE", rows |-> <<>>,
             conn |-> [changes |-> 1, lastRowid |-> NextRowid(st)],
             store |-> [st EXCEPT !.rows = Append(@, [id |-> NextRowid(st), v |-> b[1]])]]
      [] stmt.kind = "insertid1" ->
            IF \E i \in 1..Len(st.rows) : st.rows[i].id = 1
            THEN [rc |-> "ERROR", rows |-> <<>>, conn |-> conn, store |-> st,
                  cause |-> "UNIQUE constraint failed: t.id"]
            ELSE [rc |-> "DONE", rows |-> <<>>,
                  conn |-> [changes |-> 1, lastRowid |-> 1],
                  store |-> [st EXCEPT !.rows = <<[id |-> 1, v |-> b[1]]>> \o @]]
      [] stmt.kind = "insertret" ->
            [rc |-> "ROW", rows |-> <<<<SInteger(NextRowid(st))>>>>,
             conn |-> [changes |-> 1, lastRowid |-> NextRowid(st)],
             store |-> [st EXCEPT !.rows = Append(@, [id |-> NextRowid(st), v |-> b[1]])]]
      [] stmt.kind = "delete" ->
            [rc |-> "DONE", rows |-> <<>>,
             conn |-> [conn EXCEPT !.changes = Len(st.rows)],
             store |-> [st EXCEPT !.rows = <<>>]]
      [] stmt.kind = "select" ->
            [rc |-> IF st.rows = <<>> THEN "DONE" ELSE "ROW",
             rows |-> [i \in 1..Len(st.rows) |-> <<SInteger(st.rows[i].id), st.rows[i].v>>],
             conn |-> conn, store |-> st]
      [] stmt.kind = "with" ->
            [rc |-> IF st.rows = <<>> THEN "DONE" ELSE "ROW",
             rows |-> [i \in 1..Len(st.rows) |-> <<st.rows[i].v>>],
             conn |-> conn, store |-> st]
      [] stmt.kind = "select1" ->
            [rc |-> "ROW", rows |-> <<<<b[1]>>>>, conn |-> conn, store |-> st]
      [] stmt.kind = "select2" ->
            [rc |-> "ROW", rows |-> <<<<b[1], b[2]>>>>, conn |-> conn, store |-> st]
      [] OTHER ->
            [rc |-> "ROW", rows |-> <<<<SBlob>>>>, conn |-> conn, store |-> st]

\* the step of a statement that no longer compiles against the schema
StaleError(st, conn, again) ==
    [rc |-> "ERROR", rows |-> <<>>, conn |-> conn, store |-> st, cause |-> again.cause]

\* sqlite3_step: a statement whose schema changed since it was prepared is
\* prepared again by the engine, and the step fails if it no longer compiles
EngineStep(st, conn, stmt, b) ==
    IF EnginePrepare(st, stmt.sql).ok
    THEN EngineRun(st, conn, stmt, b)
    ELSE StaleError(st, conn, EnginePrepare(st, stmt.sql))

----------------------------------------------------------------------------
(* execute_sql, statement by statement *)

GoodPath == "diary_quest.db"
BadPath == "/no/such/dir/diary_quest.db"
Paths == {GoodPath, BadPath}

Ok(env) == [ok |-> TRUE, env |-> env]
Err(prefix, cause) == [ok |-> FALSE, prefix |-> prefix, cause |-> cause]

\* Connection::open(&db_path), line 104
ConnectionOpen(db_path) ==
    IF db_path = GoodPath
    THEN [ok |-> TRUE, conn |-> FreshConn]
    ELSE [ok |-> FALSE, cause |-> "unable to open database file"]

\* the prepared statement keeps its SQL text
Prepared(p, query) ==
    IF p.ok
    THEN [ok |-> TRUE,
          stmt |-> [kind |-> p.stmt.kind, table |-> p.stmt.table,
                    nparams |-> p.stmt.nparams, cols |-> p.stmt.cols,
                    sql |-> query]]
    ELSE p

\* conn.prepare(&query), line 131
ConnPrepare(st, query) == Prepared(EnginePrepare(st, query), query)

\* lines 136-139
ColumnNames(stmt) == stmt.cols

\* what Statement::execute makes of the step: sqlite3_changes after DONE, an
\* error when a row came back or the step failed
ExecuteOutcome(r) ==
    CASE r.rc = "DONE" ->
            [ok |-> TRUE, n |-> r.conn.changes, store |-> r.store, conn |-> r.conn]
      [] r.rc = "ROW" ->
            [ok |-> FALSE, cause |-> "ExecuteReturnedResults",
             store |-> r.store, conn |-> r.conn]
      [] OTHER ->
            [ok |-> FALSE, cause |-> r.cause, store |-> r.store, conn |-> r.conn]

\* the parameters bound without a check of their number: an unbound
\* placeholder reads as NULL, a parameter too many is left out
BindUnchecked(stmt, params) ==
    [i \in 1..stmt.nparams |->
        IF i <= Len(params) THEN ToSqlValue(params[i]) ELSE SNull]

\* StmtExecute with a fault: the statement is stepped without the check of
\* the parameter count
StmtExecuteUnchecked(st, conn, stmt, params) ==
    ExecuteOutcome(EngineStep(st, conn, stmt, BindUnchecked(stmt, params)))

\* Statement::execute(params), line 169: bind every parameter (the count must
\* match), step once, and report sqlite3_changes unless a row came back
StmtExecute(st, conn, stmt, params) ==
    IF Len(params) # stmt.nparams
    THEN [ok |-> FALSE, cause |-> "InvalidParameterCount", store |-> st, conn |-> conn]
    ELSE ExecuteOutcome(EngineStep(st, conn, stmt, BindAll(params)))

\* WriteEnvelope with a fault in the affected-row count
WriteEnvelopeZeroAffected(rows_affected, conn) ==
    [rows |-> <<>>, rowsAffected |-> 0, lastInsertId |-> Some(conn.lastRowid)]

\* WriteEnvelope with a fault in the presence of the insert id
WriteEnvelopeIdOnlyIfInsert(rows_affected, conn) ==
    [rows |-> <<>>, rowsAffected |-> rows_affected,
     lastInsertId |-> IF conn.lastRowid = 0 THEN None ELSE Some(conn.lastRowid)]

\* WriteEnvelope with a fault in the value of the insert id
WriteEnvelopeIdFromCount(rows_affected, conn) ==
    [rows |-> <<>>, rowsAffected |-> rows_affected, lastInsertId |-> Some(rows_affected)]

\* lines 172-176
WriteEnvelope(rows_affected, conn) ==
    [rows |-> <<>>, rowsAffected |-> rows_affected,
     lastInsertId |-> Some(conn.lastRowid)]

\* lines 162-166
ReadEnvelope(rows) == [rows |-> rows, rowsAffected |-> 0, lastInsertId |-> None]

\* lines 141-160 once the parameters are bound: collect steps through the
\* rows and maps each one
Collected(column_names, r) ==
    IF r.rc = "ERROR"
    THEN [res |-> Err("Failed to collect rows: ", r.cause), store |-> r.store]
    ELSE [res |-> Ok(ReadEnvelope(
                     [i \in 1..Len(r.rows) |-> RowMap(column_names, r.rows[i])])),
          store |-> r.store]

\* lines 136-166: query_map binds (the count must match), collect steps
ReadPath(st, conn, stmt, params) ==
    IF Len(params) # stmt.nparams
    THEN [res |-> Err("Query failed: ", "InvalidParameterCount"), store |-> st]
    ELSE Collected(ColumnNames(stmt), EngineStep(st, conn, stmt, BindAll(params)))

\* lines 169-176 once stmt.execute has returned
Written(x) ==
    [res |-> IF x.ok THEN Ok(WriteEnvelope(x.n, x.conn))
             ELSE Err("Execute failed: ", x.cause),
     store |-> x.store]

\* lines 168-176
WritePath(st, conn, stmt, params) == Written(StmtExecute(st, conn, stmt, params))

\* IsSelect on the texts of the model, computed once
IsSelectTable == [q \in Queries |-> IsSelect(q)]

\* lines 135-177
RunStatement(st, conn, query, stmt, params) ==
    IF IsSelectTable[query] THEN ReadPath(st, conn, stmt, params)
    ELSE WritePath(st, conn, stmt, params)

\* the call's outcome with the parameters it translated
WithParams(r, params) == [res |-> r.res, store |-> r.store, params |-> params]

\* lines 131-177, the connection open and the parameters translated
AfterPrepare(st, conn, query, params, p) ==
    IF ~p.ok
    THEN [res |-> Err("Failed to prepare statement: ", p.cause),
          store |-> st, params |-> params]
    ELSE WithParams(RunStatement(st, conn, query, p.stmt, params), params)

\* lines 104-177, Connection::open having returned o
AfterOpen(st, o, query, values) ==
    IF ~o.ok
    THEN [res |-> Err("Failed to open database: ", o.cause), store |-> st, params |-> <<>>]
    ELSE AfterPrepare(st, o.conn, query, Translate(values), ConnPrepare(st, query))

\* execute_sql run to completion against the store st (lines 99-178)
ExecuteSqlBody(st, db_path, query, values) ==
    AfterOpen(st, ConnectionOpen(db_path), query, values)

----------------------------------------------------------------------------
(* The inputs *)

TextA == <<"a">>

\* the JSON values a caller passes: null, true, 1, 2^63, 1.5, 2.0, "a", [1]
JsonValues ==
    { JNull, JBool(TRUE), JPosInt(0, 1), JPosInt(1, 0), JFloat(3, -1), JFloat(1, 1),
      JString(TextA), JArray(<<JPosInt(0, 1)>>) }

\* the values the calls that insert pass: one of each Parameter Value variant
InsertValues == { JNull, JBool(TRUE), JPosInt(0, 1), JFloat(3, -1), JString(TextA) }

Input(db_path, query, values) ==
    [db_path |-> db_path, query |-> query, values |-> values]

\* the calls the callers make
Inputs ==
    { Input(GoodPath, q, <<>>) : q \in Queries }
    \cup { Input(GoodPath, QInsert, <<v>>) : v \in InsertValues }
    \cup { Input(GoodPath, q, <<JString(TextA)>>) : q \in {QInsertId1, QInsertRet} }
    \cup { Input(GoodPath, QSelect1, <<v>>) : v \in JsonValues }
    \cup { Input(GoodPath, QSelect2, <<v, w>>) : v, w \in {JPosInt(0, 1), JString(TextA)} }
    \cup { Input(GoodPath, q, <<JPosInt(0, 1)>>) :
              q \in {QCreate, QDelete, QSelect, QSelect2, QMalformed} }
    \cup { Input(GoodPath, QInsert, <<JPosInt(0, 1), JString(TextA)>>) }
    \cup { Input(BadPath, q, <<>>) : q \in {QSelect, QInsert, QMalformed} }

\* the statements that add a row when they run
AddsRow(query) ==
    \E s \in Parse(query) : s.kind \in {"insert", "insertid1", "insertret"}

----------------------------------------------------------------------------
(* Spec: one call at a time *)

NoCall == [valid |-> FALSE]

IdleCall == [pc |-> "idle"]

Init ==
    /\ store = EmptyStore
    /\ last = NoCall
    /\ hist = [clean |-> TRUE, ins |-> <<>>]
    /\ calls = [c \in Callers |-> IdleCall]
    /\ connections = <<>>
    /\ dbState = <<>>

\* the kinds of statement a text compiles to
Kinds(query) == { s.kind : s \in Parse(query) }

\* the record of successful single-row inserts, for the claims about sequences
HistAfter(h, st, query, values, r) ==
    IF r.store = st THEN h
    ELSE IF Kinds(query) \subseteq {"insert", "insertid1"} /\ r.res.ok
         THEN [h EXCEPT !.ins = Append(@, [id |-> r.res.env.lastInsertId[1], value |-> values[1]])]
         ELSE IF "create" \in Kinds(query) THEN h
         ELSE IF "delete" \in Kinds(query) THEN [clean |-> FALSE, ins |-> <<>>]
         ELSE [h EXCEPT !.clean = FALSE]

\* the call in returns r: the store is as the call left it
Return(in, r) ==
    /\ store' = r.store
    /\ last' = [valid |-> TRUE, db_path |-> in.db_path, query |-> in.query,
                values |-> in.values, params |-> r.params,
                before |-> store, res |-> r.res]
    /\ hist' = HistAfter(hist, store, in.query, in.values, r)

\* one call of execute_sql, from invocation to return
ExecuteSql ==
    \E in \in Inputs :
        /\ AddsRow(in.query) => Len(store.rows) < MaxRows
        /\ Return(in, ExecuteSqlBody(store, in.db_path, in.query, in.values))
        /\ UNCHANGED <<calls, connections, dbState>>

Next == ExecuteSql

Spec == Init /\ [][Next]_vars

----------------------------------------------------------------------------
(* SpecConc: the shell dispatches one call per request, concurrently.  A   *)
(* call is cut where it touches its connection: Connection::open, prepare, *)
(* and the run of the statement, whose return drops the statement and the  *)
(* connection.  Every early return (the ? operator) drops them too.        *)

\* the calls of SpecConc
ConcInputs ==
    { Input(GoodPath, QCreate, <<>>), Input(GoodPath, QInsert, <<JString(TextA)>>),
      Input(GoodPath, QInsert, <<>>), Input(GoodPath, QSelect, <<>>),
      Input(GoodPath, QMalformed, <<>>), Input(BadPath, QSelect, <<>>) }

\* a handle no open connection has
FreshHandle(conns) ==
    CHOOSE h \in 1..(Cardinality(DOMAIN conns) + 1) : h \notin DOMAIN conns

\* a new connection enters the set of open connections
Acquire(conns, h, conn) ==
    [k \in (DOMAIN conns) \cup {h} |-> IF k = h THEN conn ELSE conns[k]]

\* Drop with a fault: the connection is kept open after the call
DropKeepsOpen(conns, h) == conns

\* conn goes out of scope: the connection is closed
Drop(conns, h) == [k \in (DOMAIN conns) \ {h} |-> conns[k]]

\* the shell receives a request and starts execute_sql on a thread
Invoke(c) ==
    /\ calls[c].pc = "idle"
    /\ \E in \in ConcInputs : calls' = [calls EXCEPT ![c] = [pc |-> "called", in |-> in]]
    /\ UNCHANGED <<store, last, hist, connections, dbState>>

\* Connection::open has returned o to caller c
Opened(c, in, o, h) ==
    IF o.ok
    THEN /\ connections' = Acquire(connections, h, o.conn)
         /\ calls' = [calls EXCEPT ![c] =
                        [pc |-> "opened", in |-> in, conn |-> h,
                         params |-> Translate(in.values)]]
    ELSE /\ connections' = connections
         /\ calls' = [calls EXCEPT ![c] =
                        [pc |-> "returned", in |-> in,
                         res |-> Err("Failed to open database: ", o.cause)]]

\* lines 104-129: open the connection, translate the parameters
Open(c) ==
    /\ calls[c].pc = "called"
    /\ Opened(c, calls[c].in, ConnectionOpen(calls[c].in.db_path),
              FreshHandle(connections))
    /\ UNCHANGED <<store, last, hist, dbState>>

\* conn.prepare has returned p to caller c
PrepareDone(c, in, p) ==
    IF p.ok
    THEN /\ connections' = connections
         /\ calls' = [calls EXCEPT ![c] =
                        [pc |-> "prepared", in |-> in, conn |-> calls[c].conn,
                         params |-> calls[c].params, stmt |-> p.stmt]]
    ELSE /\ connections' = Drop(connections, calls[c].conn)
         /\ calls' = [calls EXCEPT ![c] =
                        [pc |-> "returned", in |-> in,
                         res |-> Err("Failed to prepare statement: ", p.cause)]]

\* lines 131-132
Prepare(c) ==
    /\ calls[c].pc = "opened"
    /\ PrepareDone(c, calls[c].in, ConnPrepare(store, calls[c].in.query))
    /\ UNCHANGED <<store, last, hist, dbState>>

\* the statement has run with outcome r: caller c returns
RunDone(c, in, r) ==
    /\ store' = r.store
    /\ connections' = Drop(connections, calls[c].conn)
    /\ calls' = [calls EXCEPT ![c] = [pc |-> "returned", in |-> in, res |-> r.res]]

\* lines 135-178: run the statement and return
Run(c) ==
    /\ calls[c].pc = "prepared"
    /\ AddsRow(calls[c].in.query) => Len(store.rows) < MaxRows
    /\ RunDone(c, calls[c].in,
               RunStatement(store, connections[calls[c].conn], calls[c].in.query,
                            calls[c].stmt, calls[c].params))
    /\ UNCHANGED <<last, hist, dbState>>

\* the shell hands the result to the caller
Deliver(c) ==
    /\ calls[c].pc = "returned"
    /\ calls' = [calls EXCEPT ![c] = IdleCall]
    /\ UNCHANGED <<store, last, hist, connections, dbState>>

NextConc ==
    \E c \in Callers :
        \/ Invoke(c)
        \/ Open(c)
        \/ Prepare(c)
        \/ Run(c)
        \/ Deliver(c)

SpecConc == Init /\ [][NextConc]_vars

----------------------------------------------------------------------------
(* What the claims speak of, stated on the record of the last call *)

\* the query text begins with SELECT once trimmed, whatever its case
BeginsWithSelect(query) == StartsWith(EngineCanon(query), SelectKeyword)

\* the call returned an Envelope
Returned == last.valid /\ last.res.ok

\* the call returned an error
Failed == last.valid /\ ~last.res.ok

Envelope == last.res.env

\* preparation fails for the call's query against the store it met
PrepareFails == ~EnginePrepare(last.before, last.query).ok

\* the statement the call's query compiles to
LastStmt == EnginePrepare(last.before, last.query).stmt

\* the parameter list does not fit the statement's placeholders
BindFails == ~PrepareFails /\ Len(last.values) # LastStmt.nparams

RowIds(st) == { st.rows[i].id : i \in 1..Len(st.rows) }

\* the rows the call added to and removed from the store
AddedIds == RowIds(store) \ RowIds(last.before)
RemovedIds == RowIds(last.before) \ RowIds(store)

\* the rows the store yields for the call's statement, run directly
DirectRows ==
    EngineRun(last.before, FreshConn, LastStmt, BindAll(Translate(last.values))).rows

----------------------------------------------------------------------------

\* C1: a call whose query does not begin with SELECT and that returns an
\* Envelope returns no rows, and rows_affected is the number of rows the
\* statement changed in the store.
C1_WriteEnvelope ==
    (Returned /\ ~BeginsWithSelect(last.query)) =>
        /\ Envelope.rows = <<>>
        /\ Envelope.rowsAffected = Cardinality(AddedIds) + Cardinality(RemovedIds)

\* a DELETE that removed two or more rows returned its Envelope
C1_Witness ==
    /\ Returned
    /\ last.query = QDelete
    /\ Envelope.rowsAffected >= 2

\* C2: a well-formed query that begins with SELECT, with as many parameters
\* as placeholders, returns the store's rows in the store's order, with
\* rows_affected 0 and no insert id, and leaves the store as it was.
C2_ReadEnvelope ==
    (/\ last.valid
     /\ last.db_path = GoodPath
     /\ BeginsWithSelect(last.query)
     /\ ~PrepareFails
     /\ ~BindFails) =>
        /\ last.res.ok
        /\ Envelope.rowsAffected = 0
        /\ Envelope.lastInsertId = None
        /\ store = last.before
        /\ Len(Envelope.rows) = Len(DirectRows)
        /\ \A i \in 1..Len(DirectRows) :
             \A k \in DOMAIN Envelope.rows[i] :
               \E j \in 1..Len(LastStmt.cols) :
                  /\ LastStmt.cols[j] = k
                  /\ Envelope.rows[i][k] = ValueToJson(DirectRows[i][j])

\* a lower-case, padded select returned two rows
C2_Witness ==
    /\ Returned
    /\ last.query = QSelectLow
    /\ Len(Envelope.rows) = 2

\* C3 as stated: last_insert_id is present only when the call executed a
\* write that inserted a record.
C3_Original ==
    (Returned /\ IsSome(Envelope.lastInsertId)) => AddedIds # {}

\* C3 amended: last_insert_id is absent from every read Envelope and present
\* in every write Envelope; it is the new record's id when the call inserted
\* one and 0 when it inserted nothing.
C3_Amended ==
    Returned =>
        IF BeginsWithSelect(last.query)
        THEN Envelope.lastInsertId = None
        ELSE /\ IsSome(Envelope.lastInsertId)
             /\ IF AddedIds = {}
                THEN Envelope.lastInsertId[1] = 0
                ELSE Envelope.lastInsertId[1] \in AddedIds

\* a DELETE returned an insert id of 0
C3_Witness ==
    /\ Returned
    /\ last.query = QDelete
    /\ last.before.rows # <<>>
    /\ Envelope.lastInsertId = Some(0)

\* C4: when preparation or binding fails the call returns an error and the
\* store is as it was before the call.
C4_NoExecution ==
    (last.valid /\ last.db_path = GoodPath /\ (PrepareFails \/ BindFails)) =>
        /\ ~last.res.ok
        /\ store = last.before

\* an INSERT with no parameter failed on the write path
C4_Witness ==
    /\ Failed
    /\ last.query = QInsert
    /\ last.values = <<>>
    /\ BindFails

\* the stage at which the call fails
FailingStage ==
    IF last.db_path # GoodPath THEN "open"
    ELSE IF PrepareFails THEN "prepare"
    ELSE IF BindFails THEN "bind"
    ELSE "execute"

\* the stage an error's prefix names
StageOfPrefix(prefix) ==
    CASE prefix = "Failed to open database: " -> "open"
      [] prefix = "Failed to prepare statement: " -> "prepare"
      [] prefix = "Query failed: " -> "bind"
      [] prefix = "Execute failed: " -> "execute"
      [] OTHER -> "convert"

\* C5: the prefix of every error names the stage that failed (open, prepare,
\* bind, execute, convert, in that order), so that a parameter-count mismatch
\* is told from an execution failure by its prefix.
C5_StagePrefix ==
    Failed => StageOfPrefix(last.res.prefix) = FailingStage

\* the value a bound parameter reads back as
ReadBack(v) ==
    IF v.t = "Bool" THEN JPosInt(0, IF v.b THEN 1 ELSE 0) ELSE v

\* the call is the select of every row of t
SelectAll == Returned /\ last.query \in {QSelect, QSelectLow}

\* C6 as stated: a row inserted with a bound value and then selected shows
\* exactly that value, variant and all.
C6_Original ==
    SelectAll =>
        \A n \in 1..Len(hist.ins) :
            \E i \in 1..Len(Envelope.rows) :
                /\ Envelope.rows[i]["id"] = JPosInt(0, hist.ins[n].id)
                /\ Envelope.rows[i]["v"] = hist.ins[n].value

\* C6 amended: null, integers of the i64 range, floating-point numbers and
\* text read back exactly; a boolean reads back as the integer 1 or 0.
C6_Amended ==
    SelectAll =>
        \A n \in 1..Len(hist.ins) :
            \E i \in 1..Len(Envelope.rows) :
                /\ Envelope.rows[i]["id"] = JPosInt(0, hist.ins[n].id)
                /\ Envelope.rows[i]["v"] = ReadBack(hist.ins[n].value)

\* a boolean and a text were inserted and then selected
C6_Witness ==
    /\ SelectAll
    /\ Len(hist.ins) = 2
    /\ hist.ins[1].value = JBool(TRUE)
    /\ hist.ins[2].value = JString(TextA)

\* the call is a single-row INSERT without a RETURNING clause
PlainInsert == \E s \in Parse(last.query) : s.kind \in {"insert", "insertid1"}

\* C7: after CREATE TABLE and nothing but single-row INSERT calls, the k-th
\* insert returns no rows, rows_affected 1 and last_insert_id k, and a SELECT
\* after n inserts returns n rows with ids 1..n, the ids the inserts returned.
C7_InsertIds ==
    /\ (Returned /\ hist.clean /\ PlainInsert) =>
          /\ Envelope.rows = <<>>
          /\ Envelope.rowsAffected = 1
          /\ Envelope.lastInsertId = Some(Len(hist.ins))
    /\ (Returned /\ hist.clean /\ last.query = QSelect) =>
          /\ Len(Envelope.rows) = Len(hist.ins)
          /\ \A i \in 1..Len(hist.ins) :
                /\ hist.ins[i].id = i
                /\ Envelope.rows[i]["id"] = JPosInt(0, i)

\* two inserts, then a select of both rows
C7_Witness ==
    /\ Returned
    /\ hist.clean
    /\ last.query = QSelect
    /\ Len(hist.ins) = 2
    /\ Len(Envelope.rows) = 2

\* the callers whose call holds a connection
Holding == { c \in Callers : calls[c].pc \in {"opened", "prepared"} }

\* C8: every call past the open step holds one open connection of its own,
\* no other connection is open, none is open once every call has returned,
\* and the bridge's connection map holds nothing.
C8_OwnConnection ==
    /\ \A c \in Holding : calls[c].conn \in DOMAIN connections
    /\ \A c, d \in Holding : c # d => calls[c].conn # calls[d].conn
    /\ Cardinality(DOMAIN connections) = Cardinality(Holding)
    /\ (Holding = {}) => connections = <<>>
    /\ dbState = <<>>

\* two calls in flight hold a connection each
C8_Witness ==
    /\ Cardinality(Holding) = 2
    /\ Cardinality(DOMAIN connections) = 2

\* a number with no fractional part
IntegerValued(n) == n.k \in {"PosInt", "NegInt"} \/ (n.k = "Float" /\ n.f.e >= 0)

\* C9 as stated: the translation keeps length and order, and maps string to
\* text, integer-valued number to integer, other numbers to floating-point,
\* boolean to boolean, null to the null marker, anything else to its text.
C9_Original ==
    (last.valid /\ last.db_path = GoodPath) =>
        /\ Len(last.params) = Len(last.values)
        /\ \A i \in 1..Len(last.values) :
             LET v == last.values[i]
                 p == last.params[i]
             IN  CASE v.t = "String" -> p = PString(v.s)
                   [] v.t = "Number" ->
                        p.ty = (IF IntegerValued(v) THEN "i64" ELSE "f64")
                   [] v.t = "Bool" -> p = PBool(v.b)
                   [] v.t = "Null" -> p = PNull
                   [] OTHER -> p = PString(JsonText(v))

\* C9 amended: as stated, except that a number is translated to an integer
\* exactly when it is held as an integer of the i64 range; an integer above
\* i64::MAX and a float without fractional part become floating-point.  The
\* i-th value reaches the i-th placeholder.
C9_Amended ==
    /\ (last.valid /\ last.db_path = GoodPath) =>
        /\ Len(last.params) = Len(last.values)
        /\ \A i \in 1..Len(last.values) :
             LET v == last.values[i]
                 p == last.params[i]
             IN  CASE v.t = "String" -> p = PString(v.s)
                   [] v.t = "Number" ->
                        IF v.k = "NegInt" THEN p = PI64(v.i)
                        ELSE IF v.k = "PosInt" /\ v.hi = 0 THEN p = PI64(v.lo)
                        ELSE IF v.k = "PosInt" THEN p = PF64(F64(1, 63))
                        ELSE p = PF64(v.f)
                   [] v.t = "Bool" -> p = PBool(v.b)
                   [] v.t = "Null" -> p = PNull
                   [] OTHER -> p = PString(JsonText(v))
    /\ (Returned /\ last.query = QSelect2) =>
        /\ Envelope.rows[1]["a"] = ReadBack(last.values[1])
        /\ Envelope.rows[1]["b"] = ReadBack(last.values[2])

\* an array was passed and bound as its text
C9_Witness ==
    /\ Returned
    /\ last.query = QSelect1
    /\ last.values = <<JArray(<<JPosInt(0, 1)>>)>>
    /\ Envelope.rows[1]["p"] = JString(<<"[", "1", "]">>)

\* C10: every Result Row of a read has one entry for each output column the
\* statement declares.
C10_OneEntryPerColumn ==
    (Returned /\ BeginsWithSelect(last.query)) =>
        \A i \in 1..Len(Envelope.rows) :
            Cardinality(DOMAIN Envelope.rows[i]) = Len(LastStmt.cols)

====
